---- MODULE Spec2Model ----
(***************************************************************************)
(* Bernoulli restricted Boltzmann machine (boltzmann/brbm.py).             *)
(*                                                                         *)
(* Numbers.  Parameters (kernel, biases) are integers.  A probability is   *)
(* kept in permille (sigmoid rounded to three decimals), a uniform draw    *)
(* of random() likewise.  A binary state is 0 or 1.  The tolerance of      *)
(* relax is kept in halves (tol = 1 stands for 0.5, tol = 2 for 1.0).      *)
(* A tensor of shape [n, m] is a sequence of n rows of m entries.          *)
(***************************************************************************)
EXTENDS Integers, Sequences, FiniteSets, TLC

VARIABLES
  pc,              \* position of the running entry point
  rbm,             \* the BernoulliRBM object: sizes and the three parameters
  result,          \* what the last call returned, or the exception it raised
  \* relax
  ambient,         \* local `ambient`
  step,            \* loop variable `step` of relax and of train (Unbound before the loop binds it)
  it,              \* number of values already taken from tf.range(max_iter)
  max_iter,        \* argument
  tol,             \* argument, in halves
  relax_in,        \* the `ambient` argument as the caller passed it
  broke,           \* whether the loop was left through `break`
  \* train and contrastive_divergence
  optimizer,       \* the optimizer object
  dataset,         \* the batches the stream has not yet yielded
  real_ambient,    \* loop variable `real_ambient`
  fantasy_latent,  \* local `fantasy_latent`
  mc_steps,        \* argument
  history,         \* the History object, or PyNone
  grads_and_vars,  \* local `grads_and_vars`
  pos,             \* index of the next statement of the loop body of train
  cd_i,            \* contrastive_divergence: number of rounds done
  \* what the callers and the properties below remember
  stream0,         \* the stream as passed to train
  fantasy0,        \* the fantasy state as passed to train or contrastive_divergence
  chain_out,       \* the value the last call of contrastive_divergence in train returned
  batch_pre,       \* rbm and fantasy_latent as they were when the batch was fetched
  trace,           \* the statements of the loop body executed for the current batch
  advance_rbm,     \* the parameters contrastive_divergence read in the current batch
  cd_prev,         \* contrastive_divergence: fantasy_latent before the last round, and its draws
  show_args        \* History.show: the arguments of the last call

relaxVars == <<ambient, step, it, max_iter, tol, relax_in, broke>>
trainVars == <<optimizer, dataset, real_ambient, fantasy_latent, mc_steps, history,
               grads_and_vars, pos, cd_i>>
ghostVars == <<stream0, fantasy0, chain_out, batch_pre, trace, advance_rbm, cd_prev, show_args>>
vars == <<pc, rbm, result, relaxVars, trainVars, ghostVars>>

\* a Python name that holds no value yet is the empty sequence, a bound one <<value>>
Unbound == <<>>
Bound(v) == <<v>>
\* outcomes of a call
NoResult == [kind |-> "running"]
Returned(v) == [kind |-> "return", value |-> v]
Raised(e) == [kind |-> "raise", exception |-> e]

(***************************************************************************)
(* Bounds of the model.                                                    *)
(***************************************************************************)
MaxIter == 4
MaxMcSteps == 2
MaxBatches == 2
MaxStream == 21

(***************************************************************************)
(* The model instance: ambient_size and latent_size of BernoulliRBM.       *)
(***************************************************************************)
AmbientSize == 2

Bits == {0, 1}
Weights == {-1, 0, 1}
Signs == {-1, 1}
Biases == {-1, 0}
\* values random() draws: the least, the middle and the greatest permille of [0, 1)
RandomLevels == {0, 500, 999}
\* tolerances -0.5, 0, 0.5, 1.0, 1.5
Tols == {-1, 0, 1, 2, 3}

\* all tensors of shape [n, m] with entries in S
Tensors(n, m, S) == [1..n -> [1..m -> S]]
Vectors(m, S) == [1..m -> S]

RECURSIVE SumTo(_, _)
SumTo(f, n) == IF n = 0 THEN 0 ELSE f[n] + SumTo(f, n - 1)

Abs(a) == IF a < 0 THEN -a ELSE a

SetMax(S) == CHOOSE m \in S : \A s \in S : s <= m

\* tf.sigmoid, in permille
sigmoid(a) ==
  CASE a <= -7 -> 1
    [] a = -6 -> 2
    [] a = -5 -> 7
    [] a = -4 -> 18
    [] a = -3 -> 47
    [] a = -2 -> 119
    [] a = -1 -> 269
    [] a = 0 -> 500
    [] a = 1 -> 731
    [] a = 2 -> 881
    [] a = 3 -> 953
    [] a = 4 -> 982
    [] a = 5 -> 993
    [] a = 6 -> 998
    [] OTHER -> 999

\* activate(prob, stochastic); u is the tensor random(prob.shape) draws
activate(prob, stochastic, u) ==
  [n \in DOMAIN prob |-> [i \in DOMAIN prob[n] |->
     IF ~stochastic
       THEN (IF prob[n][i] >= 500 THEN 1 ELSE 0)
       ELSE (IF u[n][i] <= prob[n][i] THEN 1 ELSE 0)]]

\* sigmoid(x @ W + b)
prob_latent_given_ambient(m, x) ==
  [n \in DOMAIN x |-> [j \in 1..m.latent_size |->
     sigmoid(SumTo([i \in 1..m.ambient_size |-> x[n][i] * m.kernel[i][j]],
                   m.ambient_size)
             + m.latent_bias[j])]]

\* sigmoid(h @ transpose(W) + v)
prob_ambient_given_latent(m, h) ==
  [n \in DOMAIN h |-> [i \in 1..m.ambient_size |->
     sigmoid(SumTo([j \in 1..m.latent_size |-> h[n][j] * m.kernel[i][j]],
                   m.latent_size)
             + m.ambient_bias[i])]]

\* tf.reduce_max(tf.abs(x - y))
reduce_max_abs_diff(x, y) ==
  SetMax({Abs(x[n][i] - y[n][i]) : n \in DOMAIN x, i \in 1..Len(x[1])})

\* the loop body of relax up to the test: new_ambient from ambient
relax_new_ambient(m, x) ==
  LET latent == activate(prob_latent_given_ambient(m, x), FALSE, <<>>)
  IN  activate(prob_ambient_given_latent(m, latent), FALSE, <<>>)

\* the test of relax with the comparison inverted
relax_converged_inverted(new_ambient, old_ambient, t) ==
  2 * reduce_max_abs_diff(new_ambient, old_ambient) > t

\* the test of relax with <= for <
relax_converged_le(new_ambient, old_ambient, t) ==
  2 * reduce_max_abs_diff(new_ambient, old_ambient) <= t

\* the test of relax: reduce_max(abs(new_ambient - ambient)) < tol
relax_converged(new_ambient, old_ambient, t) ==
  2 * reduce_max_abs_diff(new_ambient, old_ambient) < t

\* BernoulliRBM objects: every small kernel and bias with one latent unit, and with
\* two latent units the kernels of entries -1 and 1 under a zero latent bias
Models ==
  [ambient_size : {AmbientSize}, latent_size : {1},
   kernel : Tensors(AmbientSize, 1, Weights),
   latent_bias : Vectors(1, Biases),
   ambient_bias : Vectors(AmbientSize, Biases)]
  \cup
  [ambient_size : {AmbientSize}, latent_size : {2},
   kernel : Tensors(AmbientSize, 2, Signs),
   latent_bias : Vectors(2, {0}),
   ambient_bias : Vectors(AmbientSize, Biases)]


(***************************************************************************)
(* get_energy, get_grads_and_vars, contrastive_divergence                  *)
(***************************************************************************)
\* a float that is the quotient of two integers
Frac(n, d) == [num |-> n, den |-> d]

\* get_energy reduced with tf.reduce_mean over the batch:
\* -reduce_sum(x @ W * h) - reduce_mean(h * b) - reduce_mean(x * v) per row
mean_energy(m, x, h) ==
  LET A == m.ambient_size
      L == m.latent_size
      xW(n, j) == SumTo([i \in 1..A |-> x[n][i] * m.kernel[i][j]], A)
      row(n) == - (A * L) * SumTo([j \in 1..L |-> xW(n, j) * h[n][j]], L)
                - A * SumTo([j \in 1..L |-> h[n][j] * m.latent_bias[j]], L)
                - L * SumTo([i \in 1..A |-> x[n][i] * m.ambient_bias[i]], A)
  IN  Frac(SumTo([n \in 1..Len(x) |-> row(n)], Len(x)), Len(x) * A * L)

\* expect(outer(x, y)), times the batch size
sum_outer(x, y, A, L) ==
  [i \in 1..A |-> [j \in 1..L |->
     SumTo([n \in 1..Len(x) |-> x[n][i] * y[n][j]], Len(x))]]

\* expect(x), times the batch size
sum_rows(x, W) == [i \in 1..W |-> SumTo([n \in 1..Len(x) |-> x[n][i]], Len(x))]

\* get_grads_and_vars(rbm, real_ambient, fantasy_latent): the three (gradient,
\* variable) pairs, every gradient times 1000 and both batch sizes (a
\* probability is in permille, a mean over a batch is its sum); u_latent and
\* u_ambient are the draws of the two stochastic activations
get_grads_and_vars(m, real_ambient_, fantasy_latent_, u_latent, u_ambient) ==
  LET A == m.ambient_size
      L == m.latent_size
      real_latent == activate(prob_latent_given_ambient(m, real_ambient_), TRUE, u_latent)
      fantasy_ambient_prob == prob_ambient_given_latent(m, fantasy_latent_)
      fantasy_ambient == activate(fantasy_ambient_prob, TRUE, u_ambient)
      positive == sum_outer(real_ambient_, real_latent, A, L)
      negative == sum_outer(fantasy_ambient_prob, fantasy_latent_, A, L)
      fl == sum_rows(fantasy_latent_, L)
      rl == sum_rows(real_latent, L)
      fa == sum_rows(fantasy_ambient, A)
      ra == sum_rows(real_ambient_, A)
      Br == Len(real_ambient_)
      Bf == Len(fantasy_latent_)
  IN  << <<[i \in 1..A |-> [j \in 1..L |->
              Br * negative[i][j] - 1000 * Bf * positive[i][j]]], "kernel">>,
         <<[j \in 1..L |-> 1000 * (Br * fl[j] - Bf * rl[j])], "latent_bias">>,
         <<[i \in 1..A |-> 1000 * (Br * fa[i] - Bf * ra[i])], "ambient_bias">> >>

\* the body of the loop of contrastive_divergence: one round of block Gibbs sampling
cd_round(m, latent, u_ambient, u_latent) ==
  LET fantasy_ambient == activate(prob_ambient_given_latent(m, latent), TRUE, u_ambient)
  IN  activate(prob_latent_given_ambient(m, fantasy_ambient), TRUE, u_latent)

\* random(shape)
random(n, m) == Tensors(n, m, RandomLevels)

RECURSIVE contrastive_divergence(_, _, _)
\* contrastive_divergence(rbm, fantasy_latent, mc_steps): the values it can
\* return, over the draws of its stochastic activations
contrastive_divergence(m, latent, k) ==
  IF k <= 0 THEN {latent}
  ELSE LET after == {cd_round(m, latent, ua, ul) :
                       ua \in random(Len(latent), m.ambient_size),
                       ul \in random(Len(latent), m.latent_size)}
       IN  UNION {contrastive_divergence(m, l, k - 1) : l \in after}

Sign(a) == IF a > 0 THEN 1 ELSE IF a < 0 THEN -1 ELSE 0

\* optimizer.apply_gradients(grads_and_vars): the optimizer moves every entry of
\* a variable one learning_rate against the sign of its gradient
apply_gradients(opt, gv, m) ==
  LET g(name) == gv[CHOOSE k \in DOMAIN gv : gv[k][2] = name][1]
  IN  [m EXCEPT
         !.kernel = [i \in 1..m.ambient_size |-> [j \in 1..m.latent_size |->
                       m.kernel[i][j] - opt.learning_rate * Sign(g("kernel")[i][j])]],
         !.latent_bias = [j \in 1..m.latent_size |->
                       m.latent_bias[j] - opt.learning_rate * Sign(g("latent_bias")[j])],
         !.ambient_bias = [i \in 1..m.ambient_size |->
                       m.ambient_bias[i] - opt.learning_rate * Sign(g("ambient_bias")[i])]]

(***************************************************************************)
(* History.  A dict is the sequence of its <<key, value>> items in         *)
(* insertion order; logs (a defaultdict(dict)) is a function from the      *)
(* steps that have an entry to dicts.  A value is a record with its        *)
(* Python type.                                                            *)
(***************************************************************************)
PyNone == [type |-> "NoneType"]
PyFloat(num, den) == [type |-> "float", value |-> Frac(num, den)]
NpFloat(num, den) == [type |-> "np.float32", value |-> Frac(num, den)]
PyInt(n) == [type |-> "int", number |-> n]
PyStr(t) == [type |-> "str", text |-> t]
PyList(items) == [type |-> "list", items |-> items]
\* a tf.Tensor, with what its numpy() returns
EagerTensor(np) == [type |-> "EagerTensor", numpy |-> np]

EmptyLogs == [s \in {} |-> <<>>]
NewHistory == [type |-> "History", logs |-> EmptyLogs]

dict_keys(d) == [k \in 1..Len(d) |-> d[k][1]]

\* d.get(key, None)
dict_get(d, key) ==
  IF \E k \in 1..Len(d) : d[k][1] = key
    THEN d[CHOOSE k \in 1..Len(d) : d[k][1] = key][2]
    ELSE PyNone

\* d[key] = value
dict_set(d, key, value) ==
  IF \E k \in 1..Len(d) : d[k][1] = key
    THEN [k \in 1..Len(d) |-> IF d[k][1] = key THEN <<key, value>> ELSE d[k]]
    ELSE Append(d, <<key, value>>)

\* self.logs[step] of the defaultdict: the entry, made empty when missing
logs_touch(logs, s) ==
  IF s \in DOMAIN logs THEN logs
  ELSE [x \in DOMAIN logs \cup {s} |-> IF x = s THEN <<>> ELSE logs[x]]

\* History.log(step, key, value)
history_log(h, s, key, value) ==
  LET v == IF value.type = "EagerTensor" THEN value.numpy ELSE value
      logs == logs_touch(h.logs, s)
  IN  [h EXCEPT !.logs = [logs EXCEPT ![s] = dict_set(logs[s], key, v)]]

\* f'{v:.5f}': the number of hundred-thousandths nearest to v
fmt5(v) == [fixed5 |-> (2 * 100000 * v.num + v.den) \div (2 * v.den)]

\* the isinstance tests of History.show with every number taken for a float
show_supported_numbers(v) == v.type \in {"float", "np.float32", "int", "str"}

\* the isinstance tests of History.show: float or np.floating, or str
show_supported(v) == v.type \in {"float", "np.float32", "str"}

\* the aspect History.show appends for key k with value v
show_aspect(k, v) ==
  IF v.type \in {"float", "np.float32"} THEN <<k, [text |-> fmt5(v.value)]>>
  ELSE IF v.type = "int" THEN <<k, [text |-> fmt5(Frac(v.number, 1))]>>
  ELSE <<k, [text |-> v.text]>>

\* History.show(step, keys): the history afterwards and the line returned or
\* the exception raised; keys is PyNone or a sequence of keys
history_show(h, s, keys) ==
  LET logs == logs_touch(h.logs, s)
      ks == IF keys = PyNone THEN dict_keys(logs[s]) ELSE keys.items
      vs == [k \in 1..Len(ks) |-> dict_get(logs[s], ks[k])]
  IN  [history |-> [h EXCEPT !.logs = logs],
       outcome |->
         IF \E k \in 1..Len(ks) : ~show_supported(vs[k])
           THEN Raised("ValueError")
           ELSE Returned(<< <<"step", [text |-> s]>> >>
                         \o [k \in 1..Len(ks) |-> show_aspect(ks[k], vs[k])])]

\* the string stats() logs for a parameter: the mean to five decimals and the
\* standard deviation, given by the variance it is the root of
stats_string(entries) ==
  LET n == Len(entries)
      sum == SumTo(entries, n)
      sumsq == SumTo([k \in 1..n |-> entries[k] * entries[k]], n)
  IN  PyStr(<<fmt5(Frac(sum, n)), [sqrt_of |-> Frac(n * sumsq - sum * sum, n * n)]>>)

flatten(t) ==
  [k \in 1..(Len(t) * Len(t[1])) |->
     t[((k - 1) \div Len(t[1])) + 1][((k - 1) % Len(t[1])) + 1]]

\* log_and_show_internal_information(history, rbm, step, real_ambient, fantasy_latent)
log_and_show_internal_information(h, m, s, real_ambient_, fantasy_latent_) ==
  LET real_latent == activate(prob_latent_given_ambient(m, real_ambient_), FALSE, <<>>)
      recon_ambient == activate(prob_ambient_given_latent(m, real_latent), FALSE, <<>>)
      B == Len(real_ambient_)
      equal == [n \in 1..B |-> [i \in 1..m.ambient_size |->
                  IF recon_ambient[n][i] = real_ambient_[n][i] THEN 1 ELSE 0]]
      energy == mean_energy(m, real_ambient_, real_latent)
      recon_error == Frac(SumTo(flatten(equal), B * m.ambient_size), B * m.ambient_size)
      latent_on_ratio == Frac(SumTo(flatten(real_latent), B * m.latent_size), B * m.latent_size)
      h1 == history_log(h, s, "mean energy", EagerTensor(NpFloat(energy.num, energy.den)))
      h2 == history_log(h1, s, "recon error",
                        EagerTensor(NpFloat(recon_error.num, recon_error.den)))
      h3 == history_log(h2, s, "latent-on ratio",
                        EagerTensor(NpFloat(latent_on_ratio.num, latent_on_ratio.den)))
      h4 == history_log(h3, s, "kernel", stats_string(flatten(m.kernel)))
      h5 == history_log(h4, s, "ambientbias", stats_string(m.ambient_bias))
      h6 == history_log(h5, s, "latent bias", stats_string(m.latent_bias))
  IN  history_show(h6, s, PyNone)

(***************************************************************************)
(* What the variables of an entry point hold while another one runs.       *)
(***************************************************************************)
RelaxIdle ==
  /\ ambient = <<>>
  /\ step = Unbound
  /\ it = 0
  /\ max_iter = 0
  /\ tol = 0
  /\ relax_in = <<>>
  /\ broke = FALSE

TrainIdle ==
  /\ optimizer = PyNone
  /\ dataset = <<>>
  /\ real_ambient = Unbound
  /\ fantasy_latent = Unbound
  /\ mc_steps = 0
  /\ grads_and_vars = Unbound
  /\ pos = 0
  /\ cd_i = 0

GhostIdle ==
  /\ stream0 = <<>>
  /\ fantasy0 = Unbound
  /\ chain_out = Unbound
  /\ batch_pre = Unbound
  /\ trace = <<>>
  /\ advance_rbm = Unbound
  /\ cd_prev = Unbound
  /\ show_args = Unbound

(***************************************************************************)
(* relax(rbm, ambient, max_iter, tol)                                      *)
(***************************************************************************)
InitRelax ==
  /\ pc = "relax_loop"
  /\ rbm \in Models
  /\ relax_in \in Tensors(1, AmbientSize, Bits)
  /\ ambient = relax_in
  /\ max_iter \in 0..MaxIter
  /\ tol \in Tols
  /\ step = Unbound
  /\ it = 0
  /\ broke = FALSE
  /\ result = NoResult
  /\ history = PyNone
  /\ TrainIdle
  /\ GhostIdle

\* one iteration of the for loop; a break leaves the loop and returns
RelaxIterate ==
  /\ pc = "relax_loop"
  /\ it < max_iter
  /\ step' = Bound(it)
  /\ it' = it + 1
  /\ LET new_ambient == relax_new_ambient(rbm, ambient)
     IN  IF relax_converged(new_ambient, ambient, tol)
           THEN /\ broke' = TRUE
                /\ ambient' = ambient
                /\ pc' = "relax_returned"
                /\ result' = Returned(<<ambient, it>>)
           ELSE /\ broke' = FALSE
                /\ ambient' = new_ambient
                /\ pc' = "relax_loop"
                /\ result' = result
  /\ UNCHANGED <<rbm, max_iter, tol, relax_in, trainVars, ghostVars>>

\* tf.range(max_iter) is exhausted: `return ambient, step`
RelaxExhausted ==
  /\ pc = "relax_loop"
  /\ it >= max_iter
  /\ IF step = Unbound
       THEN /\ pc' = "relax_raised"
            /\ result' = Raised("UnboundLocalError")
       ELSE /\ pc' = "relax_returned"
            /\ result' = Returned(<<ambient, step[1]>>)
  /\ UNCHANGED <<rbm, relaxVars, trainVars, ghostVars>>

NextRelax == RelaxIterate \/ RelaxExhausted

(***************************************************************************)
(* contrastive_divergence(rbm, fantasy_latent, mc_steps), called directly  *)
(***************************************************************************)
\* the models train starts from: a zero kernel and a kernel that tells the two
\* ambient units apart, under zero biases
TrainModels ==
  [ambient_size : {AmbientSize}, latent_size : {1},
   kernel : {<< <<0>>, <<0>> >>, << <<1>>, <<-1>> >>},
   latent_bias : {<<0>>},
   ambient_bias : {<<0, 0>>}]

\* the models contrastive_divergence is called with: those of train, and one
\* with two latent units
CDModels ==
  TrainModels
  \cup
  [ambient_size : {AmbientSize}, latent_size : {2},
   kernel : {<< <<1, -1>>, <<-2, 1>> >>},
   latent_bias : {<<0, -1>>},
   ambient_bias : {<<0, -1>>}]

InitCD ==
  /\ pc = "cd_loop"
  /\ rbm \in CDModels
  /\ mc_steps \in 0..MaxMcSteps
  /\ fantasy0 \in {Bound(l) : l \in Tensors(1, rbm.latent_size, Bits)}
  /\ fantasy_latent = fantasy0
  /\ cd_i = 0
  /\ cd_prev = Unbound
  /\ result = NoResult
  /\ history = PyNone
  /\ RelaxIdle
  /\ optimizer = PyNone
  /\ dataset = <<>>
  /\ real_ambient = Unbound
  /\ grads_and_vars = Unbound
  /\ pos = 0
  /\ stream0 = <<>>
  /\ chain_out = Unbound
  /\ batch_pre = Unbound
  /\ trace = <<>>
  /\ advance_rbm = Unbound
  /\ show_args = Unbound

\* the loop test of contrastive_divergence, one round too many
cd_continues_once_more(i, k) == i <= k

\* the loop test of contrastive_divergence: tf.range(mc_steps) has a next value
cd_continues(i, k) == i < k

\* one round of the loop
CDRound ==
  /\ pc = "cd_loop"
  /\ cd_continues(cd_i, mc_steps)
  /\ \E ua \in random(Len(fantasy_latent[1]), rbm.ambient_size),
        ul \in random(Len(fantasy_latent[1]), rbm.latent_size) :
       /\ fantasy_latent' = Bound(cd_round(rbm, fantasy_latent[1], ua, ul))
       /\ cd_prev' = Bound([latent |-> fantasy_latent[1], u_ambient |-> ua, u_latent |-> ul])
  /\ cd_i' = cd_i + 1
  /\ UNCHANGED <<pc, rbm, result, relaxVars, optimizer, dataset, real_ambient, mc_steps,
                 history, grads_and_vars, pos, stream0, fantasy0, chain_out, batch_pre,
                 trace, advance_rbm, show_args>>

\* `return fantasy_latent`
CDReturn ==
  /\ pc = "cd_loop"
  /\ ~cd_continues(cd_i, mc_steps)
  /\ pc' = "cd_returned"
  /\ result' = Returned(fantasy_latent[1])
  /\ UNCHANGED <<rbm, relaxVars, trainVars, ghostVars>>

NextCD == CDRound \/ CDReturn

(***************************************************************************)
(* train(rbm, optimizer, dataset, fantasy_latent, mc_steps, history)       *)
(***************************************************************************)
\* the stream of n batches train is given: two batches of one row, in turn
Stream(n) == [k \in 1..n |-> IF k % 2 = 1 THEN << <<1, 0>> >> ELSE << <<0, 1>> >>]

\* short streams under an optimizer that learns, and a long stream under an
\* optimizer whose learning rate is zero
InitTrain ==
  /\ pc = "train_for"
  /\ rbm \in TrainModels
  /\ \/ /\ optimizer = [learning_rate |-> 1]
        /\ dataset \in {Stream(n) : n \in 0..MaxBatches}
        /\ mc_steps \in 0..MaxMcSteps
     \/ /\ optimizer = [learning_rate |-> 0]
        /\ dataset = Stream(MaxStream)
        /\ mc_steps = 1
  /\ fantasy_latent \in {Bound(l) : l \in Tensors(1, rbm.latent_size, Bits)}
  /\ history \in {PyNone, NewHistory}
  /\ step = Unbound
  /\ real_ambient = Unbound
  /\ grads_and_vars = Unbound
  /\ pos = 0
  /\ cd_i = 0
  /\ result = NoResult
  /\ stream0 = dataset
  /\ fantasy0 = fantasy_latent
  /\ chain_out = Unbound
  /\ batch_pre = Unbound
  /\ trace = <<>>
  /\ advance_rbm = Unbound
  /\ cd_prev = Unbound
  /\ show_args = Unbound
  /\ ambient = <<>>
  /\ it = 0
  /\ max_iter = 0
  /\ tol = 0
  /\ relax_in = <<>>
  /\ broke = FALSE

\* the loop body of train with the chain advanced before the gradients are applied
train_body_advance_first == <<"grads", "advance", "apply", "log">>

\* the statements of the loop body of train, in order
train_body == <<"grads", "apply", "advance", "log">>

\* the test before the diagnostics, with the step counted from 1
log_due_from_one(h, s) == h # PyNone /\ (s + 1) % 10 = 0

\* the test before the diagnostics: history is not None and step % 10 == 0
log_due(h, s) == h # PyNone /\ s % 10 = 0

\* the position after statement number pos of the loop body
AfterStatement ==
  IF pos = Len(train_body)
    THEN /\ pc' = "train_for"
         /\ pos' = 0
    ELSE /\ pc' = pc
         /\ pos' = pos + 1

\* `for step, real_ambient in enumerate(dataset)`: the stream yields its next batch
TrainFetch ==
  /\ pc = "train_for"
  /\ dataset # <<>>
  /\ step' = IF step = Unbound THEN Bound(0) ELSE Bound(step[1] + 1)
  /\ real_ambient' = Bound(Head(dataset))
  /\ dataset' = Tail(dataset)
  /\ pc' = "train_body"
  /\ pos' = 1
  /\ batch_pre' = Bound([rbm |-> rbm, fantasy_latent |-> fantasy_latent[1]])
  /\ trace' = <<>>
  /\ advance_rbm' = Unbound
  /\ UNCHANGED <<rbm, result, ambient, it, max_iter, tol, relax_in, broke, optimizer,
                 fantasy_latent, mc_steps, history, grads_and_vars, cd_i, stream0,
                 fantasy0, chain_out, cd_prev, show_args>>

\* get_grads_and_vars applying each gradient to its variable as it computes it
TrainGradsInPlace ==
  /\ pc = "train_body"
  /\ train_body[pos] = "grads"
  /\ \E ul \in random(Len(real_ambient[1]), rbm.latent_size),
        ua \in random(Len(fantasy_latent[1]), rbm.ambient_size) :
       LET gv == get_grads_and_vars(rbm, real_ambient[1], fantasy_latent[1], ul, ua)
       IN  /\ grads_and_vars' = Bound(gv)
           /\ rbm' = apply_gradients(optimizer, gv, rbm)
  /\ trace' = Append(trace, "grads")
  /\ AfterStatement
  /\ UNCHANGED <<result, relaxVars, optimizer, dataset, real_ambient, fantasy_latent,
                 mc_steps, history, cd_i, stream0, fantasy0, chain_out, batch_pre,
                 advance_rbm, cd_prev, show_args>>

\* `grads_and_vars = get_grads_and_vars(rbm, real_ambient, fantasy_latent)`
TrainGrads ==
  /\ pc = "train_body"
  /\ train_body[pos] = "grads"
  /\ \E ul \in random(Len(real_ambient[1]), rbm.latent_size),
        ua \in random(Len(fantasy_latent[1]), rbm.ambient_size) :
       grads_and_vars' =
         Bound(get_grads_and_vars(rbm, real_ambient[1], fantasy_latent[1], ul, ua))
  /\ trace' = Append(trace, "grads")
  /\ AfterStatement
  /\ UNCHANGED <<rbm, result, relaxVars, optimizer, dataset, real_ambient, fantasy_latent,
                 mc_steps, history, cd_i, stream0, fantasy0, chain_out, batch_pre,
                 advance_rbm, cd_prev, show_args>>

\* `optimizer.apply_gradients(grads_and_vars)`
TrainApply ==
  /\ pc = "train_body"
  /\ train_body[pos] = "apply"
  /\ rbm' = apply_gradients(optimizer, grads_and_vars[1], rbm)
  /\ trace' = Append(trace, "apply")
  /\ AfterStatement
  /\ UNCHANGED <<result, relaxVars, optimizer, dataset, real_ambient, fantasy_latent,
                 mc_steps, history, grads_and_vars, cd_i, stream0, fantasy0, chain_out,
                 batch_pre, advance_rbm, cd_prev, show_args>>

\* the chain advanced and the state it returns dropped
TrainAdvanceDropped ==
  /\ pc = "train_body"
  /\ train_body[pos] = "advance"
  /\ \E latent \in contrastive_divergence(rbm, fantasy_latent[1], mc_steps) :
       chain_out' = Bound(latent)
  /\ advance_rbm' = Bound(rbm)
  /\ trace' = Append(trace, "advance")
  /\ AfterStatement
  /\ UNCHANGED <<rbm, result, relaxVars, optimizer, dataset, real_ambient, fantasy_latent,
                 mc_steps, history, grads_and_vars, cd_i, stream0, fantasy0, batch_pre,
                 cd_prev, show_args>>

\* `fantasy_latent = contrastive_divergence(rbm, fantasy_latent, mc_steps)`
TrainAdvance ==
  /\ pc = "train_body"
  /\ train_body[pos] = "advance"
  /\ \E latent \in contrastive_divergence(rbm, fantasy_latent[1], mc_steps) :
       /\ fantasy_latent' = Bound(latent)
       /\ chain_out' = Bound(latent)
  /\ advance_rbm' = Bound(rbm)
  /\ trace' = Append(trace, "advance")
  /\ AfterStatement
  /\ UNCHANGED <<rbm, result, relaxVars, optimizer, dataset, real_ambient, mc_steps,
                 history, grads_and_vars, cd_i, stream0, fantasy0, batch_pre, cd_prev,
                 show_args>>

\* `if history is not None and step % 10 == 0: log_and_show_internal_information(...)`
TrainLog ==
  /\ pc = "train_body"
  /\ train_body[pos] = "log"
  /\ trace' = Append(trace, "log")
  /\ IF log_due(history, step[1])
       THEN LET shown == log_and_show_internal_information(
                           history, rbm, step[1], real_ambient[1], fantasy_latent[1])
            IN  /\ history' = shown.history
                /\ IF shown.outcome.kind = "raise"
                     THEN /\ pc' = "train_raised"
                          /\ pos' = 0
                          /\ result' = shown.outcome
                     ELSE /\ AfterStatement
                          /\ result' = result
       ELSE /\ history' = history
            /\ AfterStatement
            /\ result' = result
  /\ UNCHANGED <<rbm, relaxVars, optimizer, dataset, real_ambient, fantasy_latent,
                 mc_steps, grads_and_vars, cd_i, stream0, fantasy0, chain_out, batch_pre,
                 advance_rbm, cd_prev, show_args>>

\* the stream is exhausted: `return fantasy_latent`
TrainReturn ==
  /\ pc = "train_for"
  /\ dataset = <<>>
  /\ pc' = "train_returned"
  /\ result' = Returned(fantasy_latent[1])
  /\ UNCHANGED <<rbm, relaxVars, trainVars, ghostVars>>

NextTrain == TrainFetch \/ TrainGrads \/ TrainApply \/ TrainAdvance \/ TrainLog \/ TrainReturn

(***************************************************************************)
(* A History object used directly: log and show in any order.              *)
(***************************************************************************)
HistSteps == {0, 10}
HistKeys == {"mean energy", "kernel"}
\* values a caller logs: a float, a scalar float tensor, a string, an int
HistValues ==
  {PyFloat(1, 3), EagerTensor(NpFloat(-1, 2)), stats_string(<<1, -1>>), PyInt(1)}
\* the keys argument of show: left out, or a list of keys
HistKeyArgs ==
  {PyNone, PyList(<<"kernel">>), PyList(<<"mean energy", "kernel">>),
   PyList(<<"kernel", "mean energy">>)}

InitHistory ==
  /\ pc = "history_new"
  /\ rbm = PyNone
  /\ history = NewHistory
  /\ result = NoResult
  /\ RelaxIdle
  /\ TrainIdle
  /\ GhostIdle

\* history.log(step, key, value)
HistoryLog ==
  /\ pc \in {"history_new", "history_logged", "history_shown"}
  /\ \E s \in HistSteps, k \in HistKeys, v \in HistValues :
       history' = history_log(history, s, k, v)
  /\ pc' = "history_logged"
  /\ result' = Returned(PyNone)
  /\ show_args' = Unbound
  /\ UNCHANGED <<rbm, relaxVars, optimizer, dataset, real_ambient, fantasy_latent,
                 mc_steps, grads_and_vars, pos, cd_i, stream0, fantasy0, chain_out,
                 batch_pre, trace, advance_rbm, cd_prev>>

\* history.show(step, keys)
HistoryShow ==
  /\ pc \in {"history_new", "history_logged", "history_shown"}
  /\ \E s \in HistSteps, keys \in HistKeyArgs :
       LET shown == history_show(history, s, keys)
       IN  /\ history' = shown.history
           /\ result' = shown.outcome
           /\ show_args' = Bound([step |-> s, keys |-> keys])
  /\ pc' = "history_shown"
  /\ UNCHANGED <<rbm, relaxVars, optimizer, dataset, real_ambient, fantasy_latent,
                 mc_steps, grads_and_vars, pos, cd_i, stream0, fantasy0, chain_out,
                 batch_pre, trace, advance_rbm, cd_prev>>

NextHistory == HistoryLog \/ HistoryShow

Init == InitRelax \/ InitCD \/ InitTrain \/ InitHistory
Next == NextRelax \/ NextCD \/ NextTrain \/ NextHistory
Spec == Init /\ [][Next]_vars

\* each entry point alone
SpecRelax == InitRelax /\ [][NextRelax]_vars
SpecCD == InitCD /\ [][NextCD]_vars
SpecTrain == InitTrain /\ [][NextTrain]_vars
SpecHistory == InitHistory /\ [][NextHistory]_vars

(***************************************************************************)
(* Properties of relax.                                                    *)
(***************************************************************************)
RECURSIVE relax_rounds(_, _, _)
\* k relaxation rounds applied to x
relax_rounds(m, x, k) ==
  IF k = 0 THEN x ELSE relax_rounds(m, relax_new_ambient(m, x), k - 1)

\* one deterministic relaxation round reproduces x
FixedPoint(m, x) == relax_new_ambient(m, x) = x

RelaxFinished == pc \in {"relax_returned", "relax_raised"}

\* C1 (as claimed): with max_iter >= 1, the second result of relax is the index
\* of the iteration that stopped early, and max_iter when no iteration did.
C1_CountIsStopIndexOrMaxIter ==
  (pc = "relax_returned" /\ max_iter >= 1) =>
    result.value[2] = (IF broke THEN it - 1 ELSE max_iter)

\* C2 (as claimed): from a fixed point, with max_iter >= 1 and tol >= 0, relax
\* returns on iteration 0 or 1 with the ambient state equal to its input.
C2_FixedPointReturnsAtOnce ==
  (RelaxFinished /\ FixedPoint(rbm, relax_in) /\ max_iter >= 1 /\ tol >= 0) =>
    /\ result.kind = "return"
    /\ result.value[2] \in {0, 1}
    /\ result.value[1] = relax_in

\* C2 (amended): from a fixed point, with max_iter >= 1 and tol > 0, relax
\* returns on iteration 0 with the ambient state equal to its input.
C2_FixedPointPositiveTol ==
  (RelaxFinished /\ FixedPoint(rbm, relax_in) /\ max_iter >= 1 /\ tol > 0) =>
    /\ result.kind = "return"
    /\ result.value[2] = 0
    /\ result.value[1] = relax_in

\* relax has returned from a fixed point of a model with a nonzero kernel,
\* called with a positive tolerance and room for three rounds
C2_Witness ==
  /\ pc = "relax_returned"
  /\ FixedPoint(rbm, relax_in)
  /\ max_iter >= 3
  /\ tol = 1
  /\ \E i \in 1..rbm.ambient_size : rbm.kernel[i][1] # 0
  /\ result.value = <<relax_in, 0>>

\* C3 (as claimed): for every max_iter >= 0 relax ends by returning a pair
\* whose count is at most max_iter, after at most max_iter rounds.
C3_ReturnsWithinMaxIter ==
  /\ pc \in {"relax_loop", "relax_returned", "relax_raised"} => it <= max_iter
  /\ RelaxFinished =>
       /\ result.kind = "return"
       /\ result.value[2] <= max_iter

\* C10: a state relax returns after stopping early under 0 < tol <= 1 is a
\* fixed point of one relaxation round, and a state it returns without
\* stopping early is max_iter rounds applied to its input.
C10_EarlyStopIsFixedPoint ==
  pc = "relax_returned" =>
    /\ (broke /\ tol \in {1, 2}) => FixedPoint(rbm, result.value[1])
    /\ ~broke => result.value[1] = relax_rounds(rbm, relax_in, max_iter)

\* relax stopped early on its third iteration, after two rounds that changed the state
C10_Witness ==
  /\ pc = "relax_returned"
  /\ broke
  /\ tol = 2
  /\ result.value[2] = 2
  /\ result.value[1] # relax_in

(***************************************************************************)
(* Properties of contrastive_divergence.                                   *)
(***************************************************************************)
\* the state of the loop of contrastive_divergence after cd_i rounds
C4_Rounds ==
  pc \in {"cd_loop", "cd_returned"} =>
    /\ cd_i <= mc_steps
    /\ cd_i = 0 => (fantasy_latent = fantasy0 /\ cd_prev = Unbound)
    /\ cd_i = 1 => cd_prev[1].latent = fantasy0[1]
    /\ cd_i > 0 =>
         LET sampled_ambient ==
               activate(prob_ambient_given_latent(rbm, cd_prev[1].latent),
                        TRUE, cd_prev[1].u_ambient)
         IN  fantasy_latent[1] =
               activate(prob_latent_given_ambient(rbm, sampled_ambient),
                        TRUE, cd_prev[1].u_latent)
    /\ pc = "cd_returned" =>
         /\ cd_i = mc_steps
         /\ result = Returned(fantasy_latent[1])
         /\ mc_steps = 0 => result.value = fantasy0[1]
         /\ result.value \in contrastive_divergence(rbm, fantasy0[1], mc_steps)

\* a round starts from the latent state the round before it produced
C4_Chained ==
  (pc = "cd_loop" /\ cd_i' = cd_i + 1) => cd_prev'[1].latent = fantasy_latent[1]

\* C4: with mc_steps = 0 contrastive_divergence returns its input; with
\* mc_steps = k it performs exactly k rounds, each sampling the ambient state
\* from the latent state the round before produced and the latent state from
\* that ambient state.
C4_ExactlyKRounds == []C4_Rounds /\ [][C4_Chained]_vars

\* contrastive_divergence returned after two rounds, with a state other than its input
C4_Witness ==
  /\ pc = "cd_returned"
  /\ mc_steps = 2
  /\ cd_i = 2
  /\ result.value # fantasy0[1]
  /\ cd_prev[1].latent # fantasy0[1]

(***************************************************************************)
(* Properties of train.                                                    *)
(***************************************************************************)
InTrain == pc \in {"train_for", "train_body", "train_returned", "train_raised"}

\* C5: the fantasy state train holds is the one the last chain advance
\* returned (the caller's before the first advance), the state a batch starts
\* from is the one the batch before ended with, and train returns the state of
\* the last advance, or the caller's for an empty stream.
C5_ChainPersistent ==
  InTrain =>
    /\ fantasy_latent = (IF chain_out = Unbound THEN fantasy0 ELSE chain_out)
    /\ (batch_pre # Unbound /\ ~(\E k \in 1..Len(trace) : trace[k] = "advance")) =>
         batch_pre[1].fantasy_latent = fantasy_latent[1]
    /\ (step # Unbound /\ step[1] = 0 /\ batch_pre # Unbound) =>
         batch_pre[1].fantasy_latent = fantasy0[1]
    /\ pc = "train_returned" =>
         result = Returned(IF stream0 = <<>> THEN fantasy0[1] ELSE chain_out[1])

\* train returned after two batches, the chain having left the caller's state
C5_Witness ==
  /\ pc = "train_returned"
  /\ Len(stream0) = 2
  /\ mc_steps = 1
  /\ chain_out # fantasy0
  /\ batch_pre[1].fantasy_latent # fantasy0[1]
  /\ result.value = chain_out[1]

DiagnosticKeys ==
  <<"mean energy", "recon error", "latent-on ratio", "kernel", "ambientbias", "latent bias">>

InTrace(name) == \E k \in 1..Len(trace) : trace[k] = name

\* the batch indices whose turn to log has passed
LogTurnsPassed ==
  IF step = Unbound THEN {}
  ELSE {t \in 0..step[1] : t < step[1] \/ InTrace("log")}

\* what the history holds, given the logging turns that have passed
C6_Logged ==
  InTrain =>
    IF history = PyNone THEN TRUE
    ELSE /\ DOMAIN history.logs = {t \in LogTurnsPassed : t % 10 = 0}
         /\ \A t \in DOMAIN history.logs : dict_keys(history.logs[t]) = DiagnosticKeys

\* a train that was given no history never has one, and one that was given
\* a history keeps it
C6_SinkStays ==
  InTrain => ((history = PyNone) <=> (history' = PyNone))

\* C6: the steps recorded in the history are the batch indices t with
\* t mod 10 = 0, once the logging turn of batch t has passed, each with the
\* six diagnostics; without a history nothing is recorded.
C6_LoggedEveryTenth == []C6_Logged /\ [][C6_SinkStays]_vars

\* train returned after a stream long enough to log three times, nine
\* batches out of ten unlogged
C6_Witness ==
  /\ pc = "train_returned"
  /\ history # PyNone
  /\ step # Unbound
  /\ step[1] >= 20
  /\ DOMAIN history.logs = {0, 10, 20}

\* C9: the batch in hand is the next of the stream, and within a batch the
\* gradients are computed from the parameters and the chain state the batch
\* started with, then applied once, then the chain is advanced under the
\* updated parameters, then the diagnostics (when due) are computed from the
\* updated parameters; the next batch is fetched only after all four.
C9_StepOrder ==
  InTrain =>
    /\ step = Unbound => (dataset = stream0 /\ trace = <<>>)
    /\ step # Unbound =>
         /\ step[1] + 1 + Len(dataset) = Len(stream0)
         /\ real_ambient[1] = stream0[step[1] + 1]
         /\ dataset = SubSeq(stream0, step[1] + 2, Len(stream0))
         /\ trace = SubSeq(<<"grads", "apply", "advance", "log">>, 1, Len(trace))
         /\ pc \in {"train_for", "train_returned"} => Len(trace) = 4
         /\ InTrace("grads") =>
              \E ul \in random(Len(real_ambient[1]), rbm.latent_size),
                 ua \in random(Len(batch_pre[1].fantasy_latent), rbm.ambient_size) :
                grads_and_vars[1] =
                  get_grads_and_vars(batch_pre[1].rbm, real_ambient[1],
                                     batch_pre[1].fantasy_latent, ul, ua)
         /\ rbm = IF InTrace("apply")
                    THEN apply_gradients(optimizer, grads_and_vars[1], batch_pre[1].rbm)
                    ELSE batch_pre[1].rbm
         /\ InTrace("advance") =>
              advance_rbm[1] =
                apply_gradients(optimizer, grads_and_vars[1], batch_pre[1].rbm)
         /\ (InTrace("log") /\ history # PyNone /\ step[1] % 10 = 0) =>
              history.logs[step[1]] =
                log_and_show_internal_information(
                  NewHistory, rbm, step[1], real_ambient[1], fantasy_latent[1]
                ).history.logs[step[1]]

\* the second batch is done: its update changed the parameters, and the first
\* batch's diagnostics are in the history
C9_Witness ==
  /\ pc = "train_for"
  /\ step = Bound(1)
  /\ Len(trace) = 4
  /\ rbm # batch_pre[1].rbm
  /\ history # PyNone
  /\ real_ambient[1] # stream0[1]

(***************************************************************************)
(* The parameters.                                                         *)
(***************************************************************************)
\* the shapes of the three parameters
Shapes(m) ==
  IF m = PyNone THEN <<>>
  ELSE <<m.ambient_size, m.latent_size, Len(m.kernel),
         {Len(m.kernel[i]) : i \in 1..Len(m.kernel)},
         Len(m.latent_bias), Len(m.ambient_bias)>>

\* C8: a step that changes a parameter is the optimizer applying the
\* gradients in train; no step changes the shape of a parameter.
C8_OnlyApplyWrites ==
  /\ rbm' # rbm => (pc = "train_body" /\ trace' = Append(trace, "apply"))
  /\ Shapes(rbm') = Shapes(rbm)

C8_ParametersFramed == [][C8_OnlyApplyWrites]_vars

\* the optimizer has changed the parameters, and the chain advance and the
\* diagnostics of that batch have run since
C8_Witness ==
  /\ pc = "train_for"
  /\ batch_pre # Unbound
  /\ rbm # batch_pre[1].rbm
  /\ Len(trace) = 4
  /\ history # PyNone
  /\ mc_steps >= 1

(***************************************************************************)
(* Properties of History.show.                                             *)
(***************************************************************************)
\* the keys the last call of show was asked to render
RequestedKeys ==
  LET recorded == history.logs[show_args[1].step]
  IN  IF show_args[1].keys = PyNone THEN dict_keys(recorded) ELSE show_args[1].keys.items

\* key k has, at the step shown, a float or a string
Renderable(k) ==
  LET recorded == history.logs[show_args[1].step]
  IN  \E n \in 1..Len(recorded) :
        /\ recorded[n][1] = k
        /\ recorded[n][2].type \in {"float", "np.float32", "str"}

\* C7: show raises ValueError when the value of a requested key is neither a
\* float nor a string, a key never recorded at the step included, and returns
\* a line, with one aspect a key, otherwise.
C7_ShowFailsOnUnsupported ==
  pc = "history_shown" =>
    IF \E n \in 1..Len(RequestedKeys) : ~Renderable(RequestedKeys[n])
      THEN result = Raised("ValueError")
      ELSE /\ result.kind = "return"
           /\ Len(result.value) = 1 + Len(RequestedKeys)
           /\ \A n \in 1..Len(RequestedKeys) : result.value[n + 1][1] = RequestedKeys[n]

\* show raised for a key that was never recorded at the step, the other
\* requested key holding a float
C7_Witness ==
  /\ pc = "history_shown"
  /\ show_args[1].keys = PyList(<<"mean energy", "kernel">>)
  /\ dict_keys(history.logs[show_args[1].step]) = <<"mean energy">>
  /\ history.logs[show_args[1].step][1][2].type = "np.float32"
  /\ result = Raised("ValueError")
====
